---- MODULE Spec2Model ----
(***************************************************************************)
(* Model of BioRAG-LR: the citation formatter and the ask facade of        *)
(* src/src/rag_pipeline.py, the Streamlit session of src/app.py and the    *)
(* ingestion run of src/process_pdfs.py with src/src/document_loader.py.   *)
(*                                                                         *)
(* A Python str is a sequence of pieces.  Paths and everything derived     *)
(* from them are spelled one character per piece, because the code works   *)
(* on their characters (basename, splitext, re.sub, title, lower, in).     *)
(* Fixed texts that the code only concatenates are one piece each.         *)
(* A metadata dict is a function from the keys it holds to their values.   *)
(***************************************************************************)
EXTENDS Integers, Sequences, FiniteSets, TLC

VARIABLES
    source_documents,     \* format_sources: its argument
    formatted_citations,  \* format_sources: the list it returned
    fpc,                  \* "input" before the call, "done" after, "raised"
    dir_exists,           \* ingestion: data/papers exists
    files,                \* ingestion: the files under data/papers, by relative path
    pages,                \* ingestion: the pages PyPDFLoader reads from each file
    corrupt,              \* ingestion: the PDF files PyPDFLoader cannot read
    dir_found,            \* ingestion: what line 63 found, "unchecked" before it
    ipc,                  \* ingestion: where main() is
    pdf_files,            \* ingestion: main's pdf_files
    documents,            \* ingestion: main's documents
    printed,              \* ingestion: the diagnostics main printed
    create_called,        \* ingestion: create_vector_store was called
    index,                \* the persisted vector index: the chunks it holds
    chat_history,         \* session: st.session_state.chat_history
    rag_pipeline,         \* session: st.session_state.rag_pipeline, "none" or "ready"
    is_initialized,       \* session: st.session_state.is_initialized
    vector_store,         \* session: st.session_state.vector_store, "none" or "loaded"
    last_outcome,         \* what the QA chain did in the last ask
    last_response         \* what the last ask gave its caller

\* ------------------------------------------------------------------ bounds
MaxDocs == 3

MaxPages == 2

MaxRetrieved == 2

MaxHistory == 4

\* ----------------------------------------------------------------- strings
LowerLetters == <<"a", "b", "c", "d", "e", "f", "g", "h", "i", "j", "k", "l", "m", "n", "o", "p", "q", "r", "s", "t", "u", "v", "w", "x", "y", "z">>

UpperLetters == <<"A", "B", "C", "D", "E", "F", "G", "H", "I", "J", "K", "L", "M", "N", "O", "P", "Q", "R", "S", "T", "U", "V", "W", "X", "Y", "Z">>

LetterIndex(tbl, c) == CHOOSE i \in 1..Len(tbl) : tbl[i] = c

IsLower(c) == \E i \in 1..Len(LowerLetters) : LowerLetters[i] = c

IsUpper(c) == \E i \in 1..Len(UpperLetters) : UpperLetters[i] = c

IsLetter(c) == IsLower(c) \/ IsUpper(c)

LowerChar(c) == IF IsUpper(c) THEN LowerLetters[LetterIndex(UpperLetters, c)] ELSE c

UpperChar(c) == IF IsLower(c) THEN UpperLetters[LetterIndex(LowerLetters, c)] ELSE c

\* str.lower()
Lower(s) == [i \in 1..Len(s) |-> LowerChar(s[i])]

\* str.title(): a letter that follows a non-letter (or starts the text) is
\* upper-cased, every other letter is lower-cased
Title(s) == [i \in 1..Len(s) |->
               IF i = 1 \/ ~IsLetter(s[i - 1]) THEN UpperChar(s[i]) ELSE LowerChar(s[i])]

\* re.sub(r'[_\-]', ' ', s)
SubUnderscoreHyphen(s) == [i \in 1..Len(s) |-> IF s[i] \in {"_", "-"} THEN " " ELSE s[i]]

LastIndexOf(s, c) ==
    IF \E i \in 1..Len(s) : s[i] = c
    THEN CHOOSE i \in 1..Len(s) : s[i] = c /\ \A j \in (i + 1)..Len(s) : s[j] # c
    ELSE 0

\* os.path.basename(p): what follows the last "/"
Basename(p) == SubSeq(p, LastIndexOf(p, "/") + 1, Len(p))

\* os.path.splitext(name)[0]: the name up to its last ".", unless that "." only
\* follows leading dots (".pdf" has no extension)
SplitextRoot(name) ==
    LET k == LastIndexOf(name, ".")
    IN IF k > 0 /\ \E j \in 1..(k - 1) : name[j] # "." THEN SubSeq(name, 1, k - 1) ELSE name

\* str.endswith(suffix)
EndsWith(s, suffix) ==
    Len(s) >= Len(suffix) /\ SubSeq(s, Len(s) - Len(suffix) + 1, Len(s)) = suffix

\* needle in s
Contains(s, needle) ==
    \E i \in 0..(Len(s) - Len(needle)) : SubSeq(s, i + 1, i + Len(needle)) = needle

RECURSIVE Join(_, _)
\* sep.join(parts)
Join(parts, sep) ==
    IF parts = <<>> THEN <<>>
    ELSE IF Len(parts) = 1 THEN parts[1]
    ELSE parts[1] \o sep \o Join(Tail(parts), sep)

\* The int 0 of a PyPDFLoader page number: it prints as "0" and is falsy.  Every
\* other page number behaves in this code as its decimal text does.
IntZero == <<"0 (int)">>

\* Python truthiness of a metadata value
Truthy(v) == v # <<>> /\ v # IntZero

\* str(v) inside an f-string
Str(v) == IF v = IntZero THEN <<"0">> ELSE v

\* dict.get(key, default)
Get(md, key, default) == IF key \in DOMAIN md THEN md[key] ELSE default

\* ------------------------------------------------------- citation formatter
NoRelevantSources == <<"No relevant sources found">>

MetadataIncomplete == <<"Sources found but citation metadata is incomplete">>

\* A document is [kind, md]: kind "dict" has the metadata dict md, kind
\* "no_attr" has no metadata attribute (line 86 gives it {}), kind "none" has
\* metadata None, on which .get raises AttributeError.
MetadataOf(doc) == IF doc.kind = "dict" THEN doc.md ELSE <<>>

\* line 89: doc.metadata.get raises when metadata is not a dict
FormatRaises(docs) == \E i \in 1..Len(docs) : docs[i].kind = "none"

NoneTypeMessage == <<"'NoneType' object has no attribute 'get'">>

\* lines 89-102: the fields read from the metadata, the title derived from the
\* file name when there is none
Fields(md) ==
    LET source == Get(md, "source", <<>>)
        given  == Get(md, "paper_title", <<>>)
    IN [ paper_title |-> IF ~Truthy(given) /\ Truthy(source)
                         THEN Title(SubUnderscoreHyphen(SplitextRoot(Basename(source))))
                         ELSE given,
         authors |-> Get(md, "authors", <<>>),
         journal |-> Get(md, "journal", <<>>),
         year    |-> Get(md, "year", <<>>),
         volume  |-> Get(md, "volume", <<>>),
         pages   |-> Get(md, "page", Get(md, "pages", <<>>)),
         doi     |-> Get(md, "doi", <<>>),
         source  |-> source ]

\* str(i + 1) of the enumerate index (i is 1-based here)
DocNumber(i) == <<ToString(i)>>

\* lines 117-127
JournalPart(f) ==
    IF Truthy(f.journal)
    THEN << <<"**Journal**: ">> \o Str(f.journal)
              \o (IF Truthy(f.volume) THEN <<" ">> \o Str(f.volume) ELSE <<>>)
              \o (IF Truthy(f.pages) THEN <<", ">> \o Str(f.pages) ELSE <<>>)
              \o (IF Truthy(f.year) THEN <<" (">> \o Str(f.year) \o <<")">> ELSE <<>>) >>
    ELSE IF Truthy(f.year) THEN << <<"**Year**: ">> \o Str(f.year) >>
    ELSE <<>>

\* lines 105-130: the parts of one citation
CitationParts(f, i) ==
    << (IF Truthy(f.paper_title) THEN <<"**Title**: ">> \o Str(f.paper_title)
        ELSE <<"**Document ">> \o DocNumber(i) \o <<"**">>) >>
    \o (IF Truthy(f.authors) THEN << <<"**Authors**: ">> \o Str(f.authors) >> ELSE <<>>)
    \o JournalPart(f)
    \o (IF Truthy(f.doi) THEN << <<"**DOI**: ">> \o Str(f.doi) >> ELSE <<>>)

\* line 133
Citation(md, i) == Join(CitationParts(Fields(md), i), <<" | ">>)

\* lines 136-139
CitationKey(md) ==
    LET f == Fields(md)
    IN IF Truthy(f.source) THEN f.source
       ELSE Str(f.paper_title) \o <<"_">> \o Str(f.authors) \o <<"_">> \o Str(f.journal)

\* A mutant of LoopBody: the seen-set test is dropped
LoopBodyNoDedupe(doc, i, acc) ==
    [ citations |-> Append(acc.citations, Citation(MetadataOf(doc), i)),
      seen |-> acc.seen \cup {CitationKey(MetadataOf(doc))} ]

\* lines 83-143: one iteration of the loop over source_documents
LoopBody(doc, i, acc) ==
    LET md  == MetadataOf(doc)
        key == CitationKey(md)
    IN IF key \notin acc.seen
       THEN [ citations |-> Append(acc.citations, Citation(md, i)),
              seen |-> acc.seen \cup {key} ]
       ELSE acc

RECURSIVE FormatLoop(_, _, _)
FormatLoop(docs, i, acc) ==
    IF i > Len(docs) THEN acc
    ELSE FormatLoop(docs, i + 1, LoopBody(docs[i], i, acc))

\* A mutant of FinalCitations: the two sentinels are exchanged
FinalCitationsSwapped(citations, n) ==
    IF citations = <<>> /\ n > 0 THEN <<NoRelevantSources>>
    ELSE IF citations = <<>> THEN <<MetadataIncomplete>>
    ELSE citations

\* lines 145-152
FinalCitations(citations, n) ==
    IF citations = <<>> /\ n > 0 THEN <<MetadataIncomplete>>
    ELSE IF citations = <<>> THEN <<NoRelevantSources>>
    ELSE citations

\* lines 56-152, for documents on which it does not raise
format_sources(docs) ==
    FinalCitations(FormatLoop(docs, 1, [citations |-> <<>>, seen |-> {}]).citations,
                   Len(docs))

\* ------------------------------------------------------ documents to format
PathUhde == <<"d", "a", "t", "a", "/", "p", "a", "p", "e", "r", "s", "/", "u", "h", "d", "e", "-", "2", "0", "1", "8", ".", "p", "d", "f">>

PathMyPaper == <<"d", "a", "t", "a", "/", "p", "a", "p", "e", "r", "s", "/", "s", "u", "b", "/", "m", "y", "_", "p", "a", "p", "e", "r", ".", "p", "d", "f">>

Dict(md) == [kind |-> "dict", md |-> md]

\* Retrieved documents of every shape format_sources distinguishes: without
\* metadata, with a source only, with the same source and full metadata, with a
\* composite key only (two of them with the same key text), with a year only,
\* with a journal and each of volume, page, pages and year.
DocUniverse ==
    { [kind |-> "no_attr", md |-> <<>>],
      Dict(<<>>),
      Dict("page" :> <<"3">>),
      Dict("source" :> PathUhde @@ "page" :> IntZero),
      Dict("source" :> PathUhde @@ "paper_title" :> <<"Metabolomic profiles">>
             @@ "authors" :> <<"Uhde et al.">> @@ "journal" :> <<"Scientific Reports">>
             @@ "year" :> <<"2018">> @@ "volume" :> <<"8">> @@ "pages" :> <<"9477">>
             @@ "doi" :> <<"10.1038/s41598-018-27829-9">>),
      Dict("source" :> PathMyPaper @@ "paper_title" :> <<>> @@ "page" :> <<"1">>
             @@ "authors" :> <<"Unknown Author">> @@ "journal" :> <<"Unknown Journal">>),
      Dict("paper_title" :> <<"a", "_">> @@ "authors" :> <<>>),
      Dict("paper_title" :> <<"a">> @@ "authors" :> <<"_">>),
      Dict("year" :> <<"2018">>),
      Dict("journal" :> <<"Scientific Reports">> @@ "pages" :> <<"9477">>
             @@ "page" :> <<"3">> @@ "year" :> <<"2018">>) }

\* A document whose metadata is None
NoneDoc == [kind |-> "none", md |-> <<>>]

RECURSIVE SeqsUpTo(_, _)
\* the sequences over S of length at most n
SeqsUpTo(S, n) ==
    IF n = 0 THEN {<<>>}
    ELSE LET shorter == SeqsUpTo(S, n - 1)
         IN shorter \cup {Append(q, x) : q \in {r \in shorter : Len(r) = n - 1}, x \in S}

\* --------------------------------------------------------------- ingestion
\* pdf_directory of main()
PdfDirectory == <<"d", "a", "t", "a", "/", "p", "a", "p", "e", "r", "s">>

DotPdf == <<".", "p", "d", "f">>

\* The files the directory may hold, by path relative to it: two PDFs at the
\* top (one of them the known paper), one PDF in a subdirectory, one text file.
FileUhde == <<"u", "h", "d", "e", "-", "2", "0", "1", "8", ".", "p", "d", "f">>

FileKnown == <<"s", "4", "1", "5", "9", "8", "-", "0", "1", "8", "-", "2", "7", "8", "2", "9", "-", "9", ".", "p", "d", "f">>

FileSub == <<"s", "u", "b", "/", "m", "y", "_", "p", "a", "p", "e", "r", ".", "p", "d", "f">>

FileNotes == <<"n", "o", "t", "e", "s", ".", "t", "x", "t">>

\* in the order the loader walks them
FileOrder == <<FileKnown, FileSub, FileUhde, FileNotes>>

FileUniverse == {FileOrder[i] : i \in 1..Len(FileOrder)}

\* known_papers: its one key and the metadata under it
KnownKey == <<"s", "4", "1", "5", "9", "8", "-", "0", "1", "8", "-", "2", "7", "8", "2", "9", "-", "9">>

KnownMetadata ==
    "paper_title" :> <<"Metabolomic profiles of bovine cumulus cells and cumulus-oocyte-complex-conditioned medium during maturation in vitro">>
    @@ "authors" :> <<"Uhde et al.">>
    @@ "journal" :> <<"Scientific Reports">>
    @@ "year" :> <<"2018">>
    @@ "volume" :> <<"8">>
    @@ "pages" :> <<"9477">>
    @@ "doi" :> <<"10.1038/s41598-018-27829-9">>

UnknownAuthor == <<"Unknown Author">>

UnknownJournal == <<"Unknown Journal">>

\* os.listdir(pdf_directory): the names directly in the directory (a file in a
\* subdirectory shows as the subdirectory's name)
FirstIndexOf(s, c) ==
    IF \E i \in 1..Len(s) : s[i] = c
    THEN CHOOSE i \in 1..Len(s) : s[i] = c /\ \A j \in 1..(i - 1) : s[j] # c
    ELSE 0

TopName(rel) == IF FirstIndexOf(rel, "/") = 0 THEN rel ELSE SubSeq(rel, 1, FirstIndexOf(rel, "/") - 1)

Listdir(fs) == {TopName(f) : f \in fs}

\* process_pdfs.py line 70
ScanPdfFiles(fs) == {f \in Listdir(fs) : EndsWith(Lower(f), DotPdf)}

\* glob="**/*.pdf" of the DirectoryLoader: every depth
GlobPdf(fs) == {f \in fs : EndsWith(Basename(f), DotPdf)}

\* the page number PyPDFLoader records: an int, from 0
PageValue(n) == IF n = 0 THEN IntZero ELSE <<ToString(n)>>

\* document_loader.py lines 23-34
LoaderMetadata(md) ==
    IF "source" \in DOMAIN md
    THEN ("paper_title" :> SplitextRoot(Basename(md["source"]))) @@ md @@ ("page" :> <<>>)
    ELSE md

\* the Documents PyPDFLoader makes of one file, one per page
FileDocuments(rel, n) ==
    [j \in 1..n |-> Dict(LoaderMetadata("source" :> (PdfDirectory \o <<"/">> \o rel)
                                        @@ "page" :> PageValue(j - 1)))]

RECURSIVE LoadFrom(_, _, _)
LoadFrom(fs, pg, k) ==
    IF k > Len(FileOrder) THEN <<>>
    ELSE (IF FileOrder[k] \in GlobPdf(fs) THEN FileDocuments(FileOrder[k], pg[FileOrder[k]]) ELSE <<>>)
         \o LoadFrom(fs, pg, k + 1)

\* document_loader.py lines 13-36: each page is one chunk, which keeps the
\* page's metadata
load_pdfs(fs, pg) == LoadFrom(fs, pg, 1)

RECURSIVE Strip(_)
\* str.strip() of a text whose only whitespace is " "
Strip(s) ==
    IF s # <<>> /\ s[1] = " " THEN Strip(Tail(s))
    ELSE IF s # <<>> /\ s[Len(s)] = " " THEN Strip(SubSeq(s, 1, Len(s) - 1))
    ELSE s

RECURSIVE CollapseSpaces(_)
\* re.sub(r'\s+', ' ', s)
CollapseSpaces(s) ==
    IF Len(s) < 2 THEN s
    ELSE IF s[1] = " " /\ s[2] = " " THEN CollapseSpaces(Tail(s))
    ELSE <<s[1]>> \o CollapseSpaces(Tail(s))

\* A mutant of EnhanceMetadata: no placeholder is written for authors and journal
EnhanceMetadataNoPlaceholders(md) ==
    LET source_file == Lower(Get(md, "source", <<>>))
        matched == Contains(source_file, KnownKey)
    IN IF matched THEN KnownMetadata @@ md ELSE md

\* process_pdfs.py lines 25-54, for one document
EnhanceMetadata(md) ==
    LET source_file == Lower(Get(md, "source", <<>>))
        matched == Contains(source_file, KnownKey)
        md1 == IF matched THEN KnownMetadata @@ md ELSE md
        untitled == "paper_title" \notin DOMAIN md1 \/ ~Truthy(md1["paper_title"])
        clean_title ==
            Title(CollapseSpaces(Strip(SubUnderscoreHyphen(SplitextRoot(Basename(source_file))))))
        md2 == IF untitled THEN ("paper_title" :> clean_title) @@ md1 ELSE md1
        md3 == IF "authors" \notin DOMAIN md2 THEN md2 @@ ("authors" :> UnknownAuthor) ELSE md2
        md4 == IF "journal" \notin DOMAIN md3 THEN md3 @@ ("journal" :> UnknownJournal) ELSE md3
    IN IF ~matched \/ untitled THEN md4 ELSE md1

\* process_pdfs.py lines 6-57
enhance_document_metadata(docs) == [i \in 1..Len(docs) |-> Dict(EnhanceMetadata(docs[i].md))]

\* the diagnostics of main()
MsgCreatedDirectory == <<"Created directory data/papers">>

MsgNoPdfFiles == <<"No PDF files found in data/papers!">>

MsgNoChunks == <<"Error: No document chunks were generated!">>

MsgStoreCreated == <<"Vector store created successfully!">>

MsgStoreError == <<"Error creating vector store: ">>

\* ------------------------------------------------------------ the facade
ErrorPrefix == <<"I encountered an error while processing your question. Please try again or rephrase your question. Error: ">>

ErrorProcessingSources == <<"Error processing sources">>

CouldNotGenerate == <<"Could not generate an answer">>

\* what a call returns to its caller: a value, or an exception that escapes
Returned(value) == [raised |-> FALSE, exc |-> <<>>, value |-> value]

Escaped(msg) == [raised |-> TRUE, exc |-> msg, value |-> <<>>]

\* A mutant of Fallback: the citations of the fallback are those of no sources
FallbackNoSources(msg) ==
    Returned("answer" :> (ErrorPrefix \o msg)
             @@ "source_documents" :> <<>>
             @@ "formatted_citations" :> <<NoRelevantSources>>)

\* rag_pipeline.py lines 183-193
Fallback(msg) ==
    Returned("answer" :> (ErrorPrefix \o msg)
             @@ "source_documents" :> <<>>
             @@ "formatted_citations" :> <<ErrorProcessingSources>>)

\* A mutant of ask: no try/except around the chain and the formatting
askUncaught(question, outcome) ==
    IF outcome.kind = "raise" THEN Escaped(outcome.msg)
    ELSE LET source_docs == Get(outcome.response, "source_documents", <<>>)
         IN IF FormatRaises(source_docs) THEN Escaped(NoneTypeMessage)
            ELSE Returned("answer" :> Get(outcome.response, "result", CouldNotGenerate)
                          @@ "source_documents" :> source_docs
                          @@ "formatted_citations" :> format_sources(source_docs))

\* rag_pipeline.py lines 154-193; outcome is what self.qa does with the
\* question: it raises with a message, or returns a response dict
ask(question, outcome) ==
    IF outcome.kind = "raise" THEN Fallback(outcome.msg)
    ELSE LET source_docs == Get(outcome.response, "source_documents", <<>>)
         IN IF FormatRaises(source_docs) THEN Fallback(NoneTypeMessage)
            ELSE Returned("answer" :> Get(outcome.response, "result", CouldNotGenerate)
                          @@ "source_documents" :> source_docs
                          @@ "formatted_citations" :> format_sources(source_docs))

\* ----------------------------------------------------------- the session
\* app.py lines 106-118: the citation the page builds for one document
AppCitation(doc) ==
    LET md == doc.md
    IN <<"**Source**: ">> \o Str(Get(md, "source", <<"Unknown source">>))
       \o (IF Truthy(Get(md, "paper_title", <<>>))
           THEN <<" | **Title**: ">> \o Str(md["paper_title"]) ELSE <<>>)
       \o (IF Truthy(Get(md, "page", <<>>))
           THEN <<" | **Page**: ">> \o Str(md["page"]) ELSE <<>>)

RECURSIVE AppCitations(_)
AppCitations(docs) ==
    IF docs = <<>> THEN <<>>
    ELSE (IF docs[1].kind = "no_attr" THEN <<>> ELSE <<AppCitation(docs[1])>>)
         \o AppCitations(Tail(docs))

\* app.py lines 100-123
CitationsOf(response) ==
    IF "formatted_citations" \in DOMAIN response THEN response["formatted_citations"]
    ELSE IF "source_documents" \in DOMAIN response
    THEN (IF AppCitations(response["source_documents"]) = <<>>
          THEN << <<"No source documents found">> >>
          ELSE AppCitations(response["source_documents"]))
    ELSE << <<"No source information available">> >>

\* A mutant of RecordTurn: the history keeps the latest turn only
RecordTurnLatestOnly(history, prompt, pipeline, r) ==
    IF pipeline = "none" \/ r.raised
    THEN <<[role |-> "user", content |-> prompt]>>
    ELSE <<[role |-> "user", content |-> prompt],
           [role |-> "assistant",
            content |-> Get(r.value, "answer", CouldNotGenerate),
            citations |-> CitationsOf(r.value)]>>

\* app.py lines 80-146: the history after the chat input was handled; r is what
\* rag_pipeline.ask gave (ask returns a dict whenever it returns)
RecordTurn(history, prompt, pipeline, r) ==
    LET asked == Append(history, [role |-> "user", content |-> prompt])
    IN IF pipeline = "none" \/ r.raised THEN asked
       ELSE Append(asked, [role |-> "assistant",
                           content |-> Get(r.value, "answer", CouldNotGenerate),
                           citations |-> CitationsOf(r.value)])

\* What the QA chain can do with a question
QaMessages == {<<>>, <<"Rate limit reached">>}

QaResults == {<<>>, <<"Cumulus cells support oocyte maturation.">>}

QaSources ==
    { <<>>,
      <<Dict(<<>>)>>,
      <<NoneDoc>>,
      <<Dict("source" :> PathUhde @@ "page" :> IntZero)>>,
      <<Dict("source" :> PathUhde @@ "page" :> <<"1">>),
        Dict("source" :> PathMyPaper @@ "paper_title" :> <<"my_paper">> @@ "page" :> IntZero
               @@ "authors" :> <<"Unknown Author">> @@ "journal" :> <<"Unknown Journal">>),
        Dict("source" :> PathUhde @@ "page" :> IntZero)>> }

QaOutcomes ==
    {[kind |-> "raise", msg |-> m, response |-> <<>>] : m \in QaMessages}
    \cup {[kind |-> "dict", msg |-> <<>>, response |-> "result" :> a @@ "source_documents" :> d] :
            a \in QaResults, d \in QaSources}
    \cup {[kind |-> "dict", msg |-> <<>>, response |-> "result" :> a] : a \in QaResults}
    \cup {[kind |-> "dict", msg |-> <<>>, response |-> "source_documents" :> d] : d \in QaSources}

Prompts == {<<"What is oocyte maturation?">>, <<"Which metabolites change?">>}

NoOutcome == [kind |-> "none", msg |-> <<>>, response |-> <<>>]

NoResponse == [raised |-> FALSE, exc |-> <<>>, value |-> <<>>]

vars == <<source_documents, formatted_citations, fpc, dir_exists, files, pages, corrupt,
          dir_found, ipc,
          pdf_files, documents, printed, create_called, index, chat_history,
          rag_pipeline, is_initialized, vector_store, last_outcome, last_response>>

sessionVars == <<chat_history, rag_pipeline, is_initialized, vector_store, last_outcome,
                 last_response>>

formatVars == <<source_documents, formatted_citations, fpc>>

ingestVars == <<dir_exists, files, pages, corrupt, dir_found, ipc, pdf_files, documents, printed, create_called, index>>

\* the state of the parts a specification does not run
IngestIdle ==
    /\ dir_exists = FALSE
    /\ files = {}
    /\ pages = [f \in FileUniverse |-> 0]
    /\ corrupt = {}
    /\ dir_found = "unchecked"
    /\ ipc = "idle"
    /\ pdf_files = {}
    /\ documents = <<>>
    /\ printed = <<>>
    /\ create_called = FALSE
    /\ index = <<>>

SessionIdle ==
    /\ chat_history = <<>>
    /\ rag_pipeline = "none"
    /\ is_initialized = FALSE
    /\ vector_store = "none"
    /\ last_outcome = NoOutcome
    /\ last_response = NoResponse

FormatIdle ==
    /\ source_documents = <<>>
    /\ formatted_citations = <<>>
    /\ fpc = "idle"

\* --------------------------------------------- format_sources on its own
InitFormat ==
    /\ source_documents \in SeqsUpTo(DocUniverse \cup {NoneDoc}, MaxDocs)
    /\ formatted_citations = <<>>
    /\ fpc = "input"
    /\ IngestIdle
    /\ SessionIdle

\* a call of format_sources that returns
CallFormat ==
    /\ fpc = "input"
    /\ ipc = "idle"
    /\ ~FormatRaises(source_documents)
    /\ formatted_citations' = format_sources(source_documents)
    /\ fpc' = "done"
    /\ UNCHANGED <<source_documents, ingestVars, sessionVars>>

\* a call of format_sources that raises at line 89
CallFormatRaises ==
    /\ fpc = "input"
    /\ ipc = "idle"
    /\ FormatRaises(source_documents)
    /\ fpc' = "raised"
    /\ UNCHANGED <<source_documents, formatted_citations, ingestVars, sessionVars>>

NextFormat == CallFormat \/ CallFormatRaises

SpecFormat == InitFormat /\ [][NextFormat]_vars

\* ------------------------------------------------------ the ingestion run
InitIngest ==
    /\ dir_exists \in BOOLEAN
    /\ files \in SUBSET FileUniverse
    /\ ~dir_exists => files = {}
    /\ pages \in [FileUniverse -> 0..MaxPages]
    /\ \A f \in FileUniverse : f \notin GlobPdf(files) => pages[f] = 0
    /\ corrupt \in SUBSET GlobPdf(files)
    /\ \A f \in corrupt : pages[f] = 0
    /\ dir_found = "unchecked"
    /\ ipc = "start"
    /\ pdf_files = {}
    /\ documents = <<>>
    /\ printed = <<>>
    /\ create_called = FALSE
    /\ index = <<>>
    /\ source_documents = <<>>
    /\ formatted_citations = <<>>
    /\ fpc = "input"
    /\ SessionIdle

\* process_pdfs.py lines 63-67
CheckDirectory ==
    /\ ipc = "start"
    /\ IF ~dir_exists
       THEN /\ dir_found' = "missing"
            /\ dir_exists' = TRUE
            /\ printed' = Append(printed, MsgCreatedDirectory)
            /\ ipc' = "done"
       ELSE /\ dir_found' = "present"
            /\ ipc' = "scan"
            /\ UNCHANGED <<dir_exists, printed>>
    /\ UNCHANGED <<files, pages, corrupt, pdf_files, documents, create_called, index, formatVars, sessionVars>>

\* process_pdfs.py lines 70-76
ScanDirectory ==
    /\ ipc = "scan"
    /\ pdf_files' = ScanPdfFiles(files)
    /\ IF pdf_files' = {}
       THEN /\ printed' = Append(printed, MsgNoPdfFiles)
            /\ ipc' = "done"
       ELSE /\ ipc' = "load"
            /\ UNCHANGED printed
    /\ UNCHANGED <<dir_exists, files, pages, corrupt, dir_found, documents, create_called, index, formatVars, sessionVars>>

\* A mutant of LoadDocuments: the test of line 83 is dropped
LoadDocumentsUnchecked ==
    /\ ipc = "load"
    /\ documents' = load_pdfs(files, pages)
    /\ ipc' = "enhance"
    /\ UNCHANGED <<dir_exists, files, pages, corrupt, dir_found, pdf_files, printed, create_called, index, formatVars, sessionVars>>

\* process_pdfs.py lines 80-85; loader.load() raises on a PDF it cannot read
\* (the DirectoryLoader does not silence errors), and main() does not catch that
LoadDocuments ==
    /\ ipc = "load"
    /\ IF corrupt # {}
       THEN /\ ipc' = "raised"
            /\ UNCHANGED <<documents, printed>>
       ELSE /\ documents' = load_pdfs(files, pages)
            /\ IF documents' = <<>>
               THEN /\ printed' = Append(printed, MsgNoChunks)
                    /\ ipc' = "done"
               ELSE /\ ipc' = "enhance"
                    /\ UNCHANGED printed
    /\ UNCHANGED <<dir_exists, files, pages, corrupt, dir_found, pdf_files, create_called, index, formatVars, sessionVars>>

\* process_pdfs.py line 88
EnhanceDocuments ==
    /\ ipc = "enhance"
    /\ documents' = enhance_document_metadata(documents)
    /\ ipc' = "create"
    /\ UNCHANGED <<dir_exists, files, pages, corrupt, dir_found, pdf_files, printed, create_called, index, formatVars, sessionVars>>

\* VectorStoreManager.create_vector_store: it embeds the chunks and persists
\* them, or raises (provider failure) and persists nothing
create_vector_store(docs, old, provider_ok) == IF provider_ok THEN docs ELSE old

\* process_pdfs.py lines 108-115
CreateVectorStore ==
    /\ ipc = "create"
    /\ create_called' = TRUE
    /\ \E provider_ok \in BOOLEAN :
         /\ index' = create_vector_store(documents, index, provider_ok)
         /\ printed' = Append(printed, IF provider_ok THEN MsgStoreCreated ELSE MsgStoreError)
    /\ ipc' = "done"
    /\ UNCHANGED <<dir_exists, files, pages, corrupt, dir_found, pdf_files, documents, formatVars, sessionVars>>

\* k of the retriever
RetrieverK == 5

RetrievedLimit == IF RetrieverK < MaxRetrieved THEN RetrieverK ELSE MaxRetrieved

\* the retriever over the persisted index: distinct chunks, in any order
Retrievals(idx) ==
    {[j \in 1..Len(q) |-> idx[q[j]]] :
        q \in {r \in SeqsUpTo(1..Len(idx), RetrievedLimit) :
                 r # <<>> /\ \A a, b \in 1..Len(r) : a # b => r[a] # r[b]}}

\* rag_pipeline.py lines 166-174 over the ingested index: the retrieved chunks
\* are formatted into citations
RetrieveAndFormat ==
    /\ ipc = "done"
    /\ fpc = "input"
    /\ index # <<>>
    /\ \E retrieved \in Retrievals(index) :
         /\ source_documents' = retrieved
         /\ formatted_citations' = format_sources(retrieved)
    /\ fpc' = "done"
    /\ UNCHANGED <<ingestVars, sessionVars>>

NextIngest ==
    \/ CheckDirectory
    \/ ScanDirectory
    \/ LoadDocuments
    \/ EnhanceDocuments
    \/ CreateVectorStore
    \/ RetrieveAndFormat

SpecIngest == InitIngest /\ [][NextIngest]_vars

\* ------------------------------------------------- the Streamlit session
\* Every action is one run of the script of app.py (Export Chat, lines 157-176,
\* only reads the history and is a run with no event here).  store_ok: the vector store
\* loads at line 54 (otherwise the run stops at line 58); init_ok: the
\* RAGPipeline constructor of line 64 succeeds (otherwise the run stops at 68).
Init ==
    /\ SessionIdle
    /\ IngestIdle
    /\ FormatIdle

\* app.py lines 51-68: whether the run gets past them
GetsPastInit(store_ok, init_ok) == store_ok /\ (is_initialized \/ init_ok)

\* app.py lines 51-68: what they leave in the session state
Initialize(store_ok, init_ok) ==
    /\ vector_store' = IF store_ok THEN "loaded" ELSE vector_store
    /\ IF store_ok /\ ~is_initialized /\ init_ok
       THEN rag_pipeline' = "ready" /\ is_initialized' = TRUE
       ELSE UNCHANGED <<rag_pipeline, is_initialized>>

\* a run with no widget event
Rerun ==
    /\ \E store_ok, init_ok \in BOOLEAN : Initialize(store_ok, init_ok)
    /\ UNCHANGED <<chat_history, last_outcome, last_response, formatVars, ingestVars>>

\* app.py lines 44-46: the button is handled before the vector store is loaded
ResetSystem ==
    /\ chat_history' = <<>>
    /\ UNCHANGED <<rag_pipeline, is_initialized, vector_store, last_outcome, last_response,
                   formatVars, ingestVars>>

\* app.py lines 80-146
ChatInput ==
    /\ Len(chat_history) + 2 <= MaxHistory
    /\ \E store_ok, init_ok \in BOOLEAN, prompt \in Prompts, outcome \in QaOutcomes :
         /\ Initialize(store_ok, init_ok)
         /\ IF GetsPastInit(store_ok, init_ok)
            THEN LET r == ask(prompt, outcome)
                 IN /\ chat_history' = RecordTurn(chat_history, prompt, rag_pipeline', r)
                    /\ last_outcome' = outcome
                    /\ last_response' = r
            ELSE UNCHANGED <<chat_history, last_outcome, last_response>>
    /\ UNCHANGED <<formatVars, ingestVars>>

\* app.py lines 152-154
ClearConversation ==
    /\ \E store_ok, init_ok \in BOOLEAN :
         /\ Initialize(store_ok, init_ok)
         /\ IF GetsPastInit(store_ok, init_ok)
            THEN chat_history' = <<>>
            ELSE UNCHANGED chat_history
    /\ UNCHANGED <<last_outcome, last_response, formatVars, ingestVars>>

Next ==
    \/ Rerun
    \/ ResetSystem
    \/ ChatInput
    \/ ClearConversation

Spec == Init /\ [][Next]_vars

\* ================================================================ claims
\* ---- under Spec ----
\* the ask whose outcome is o met a fault: the chain raised, or a retrieved
\* document made format_sources raise
Failed(o) ==
    \/ o.kind = "raise"
    \/ o.kind = "dict" /\ FormatRaises(Get(o.response, "source_documents", <<>>))

FaultMessage(o) == IF o.kind = "raise" THEN o.msg ELSE NoneTypeMessage

\* C1: ask never raises to its caller; when the QA chain or the citation
\* formatting raised, ask returned a result whose answer is a non-empty text
\* that describes the error (the fixed apology followed by the fault's message).
C1_AskNeverRaises ==
    /\ ~last_response.raised
    /\ Failed(last_outcome) =>
         /\ "answer" \in DOMAIN last_response.value
         /\ last_response.value["answer"] # <<>>
         /\ last_response.value["answer"] = ErrorPrefix \o FaultMessage(last_outcome)

\* C1 witness: the chain raised with an empty message and ask has returned
C1_Witness ==
    /\ last_outcome.kind = "raise"
    /\ last_outcome.msg = <<>>
    /\ Len(chat_history) >= 2
    /\ chat_history[Len(chat_history)].role = "assistant"

\* C2 as stated: after a failed stage the result's citation list is empty.
C2_EmptyCitations ==
    Failed(last_outcome) => last_response.value["formatted_citations"] = <<>>

\* C2 as amended: after a failed stage the result carries no source documents
\* and the one-entry citation list "Error processing sources", which the page
\* records as the citations of the assistant's message.
C2_ErrorSentinel ==
    Failed(last_outcome) =>
        /\ last_response.value["source_documents"] = <<>>
        /\ last_response.value["formatted_citations"] = <<ErrorProcessingSources>>
        /\ chat_history # <<>> /\ chat_history[Len(chat_history)].role = "assistant" =>
             chat_history[Len(chat_history)].citations = <<ErrorProcessingSources>>

\* C2 witness: a retrieved document made the formatting raise, and the turn is
\* in the history
C2_Witness ==
    /\ last_outcome.kind = "dict"
    /\ Failed(last_outcome)
    /\ Len(chat_history) >= 2
    /\ chat_history[Len(chat_history)].role = "assistant"

IsPrefix(a, b) == Len(a) <= Len(b) /\ SubSeq(b, 1, Len(a)) = a

\* C6 as stated: the history is append-only, every step leaves the entries it
\* held in place and removes none.
C6_AppendOnly == [][IsPrefix(chat_history, chat_history')]_vars

\* C6 as amended: a step either leaves the history alone, or appends to it the
\* user's question followed by the assistant's answer, keeping the entries it
\* held in place, or empties it entirely (Reset System, Clear Conversation);
\* no step removes some entries and keeps others.
C6_AppendOrEmpty ==
    [][ \/ chat_history' = chat_history
        \/ chat_history' = <<>>
        \/ /\ Len(chat_history') = Len(chat_history) + 2
           /\ IsPrefix(chat_history, chat_history')
           /\ chat_history'[Len(chat_history) + 1].role = "user"
           /\ chat_history'[Len(chat_history) + 2].role = "assistant"
           /\ chat_history'[Len(chat_history) + 2].content = last_response'.value["answer"]
      ]_vars

\* C6 witness: two turns are in the history
C6_Witness ==
    /\ Len(chat_history) = 4
    /\ chat_history[1].role = "user" /\ chat_history[2].role = "assistant"
    /\ chat_history[3].role = "user" /\ chat_history[4].role = "assistant"

\* ---- under SpecFormat ----
UsableKeys == {"paper_title", "source", "authors", "journal", "year", "doi"}

\* no usable citation metadata
Unusable(doc) == \A k \in UsableKeys : ~Truthy(Get(MetadataOf(doc), k, <<>>))

\* C3: for a non-empty list of chunks none of which has usable citation
\* metadata, format_sources returns exactly the "metadata is incomplete" entry.
C3_IncompleteSentinel ==
    (fpc = "done" /\ source_documents # <<>>
       /\ \A i \in 1..Len(source_documents) : Unusable(source_documents[i]))
    => formatted_citations = <<MetadataIncomplete>>

\* C4: for the empty list, format_sources returns exactly the one-entry list
\* "No relevant sources found".
C4_EmptySentinel ==
    (fpc = "done" /\ source_documents = <<>>) => formatted_citations = <<NoRelevantSources>>

\* C4 witness: format_sources has returned for the empty list
C4_Witness == fpc = "done" /\ source_documents = <<>>

\* the key of the claim: the source path, or title, authors and journal joined
\* when there is no source path
DedupKey(doc) ==
    LET md == MetadataOf(doc)
    IN IF Truthy(Get(md, "source", <<>>)) THEN md["source"]
       ELSE Str(Get(md, "paper_title", <<>>)) \o <<"_">> \o Str(Get(md, "authors", <<>>))
            \o <<"_">> \o Str(Get(md, "journal", <<>>))

\* the positions whose key no earlier position carries
FirstSeen(docs) ==
    {i \in 1..Len(docs) : \A j \in 1..(i - 1) : DedupKey(docs[j]) # DedupKey(docs[i])}

\* C5: format_sources returns one citation per distinct key, in the order in
\* which the keys are first seen, each rendered from the first chunk that
\* carries the key.
C5_DedupFirstSeen ==
    (fpc = "done" /\ source_documents # <<>>) =>
        LET first == FirstSeen(source_documents)
        IN /\ Len(formatted_citations) = Cardinality(first)
           /\ \A i \in first :
                formatted_citations[Cardinality({j \in first : j <= i})]
                  = Citation(MetadataOf(source_documents[i]), i)

\* C5 witness: a key comes back after another key, on a chunk that would render
\* differently
C5_Witness ==
    /\ fpc = "done"
    /\ Len(source_documents) = 3
    /\ DedupKey(source_documents[1]) = DedupKey(source_documents[3])
    /\ DedupKey(source_documents[1]) # DedupKey(source_documents[2])
    /\ Citation(MetadataOf(source_documents[1]), 1) # Citation(MetadataOf(source_documents[3]), 3)
    /\ Len(formatted_citations) = 2

\* ---- under SpecIngest ----
\* the chunk comes from a file that matches no known paper
Unmatched(doc) == ~Contains(Lower(Get(doc.md, "source", <<>>)), KnownKey)

\* the cleaned file name: extension stripped, "_" and "-" turned into spaces,
\* title-cased
CleanedFilename(path) == Title(SubUnderscoreHyphen(SplitextRoot(Basename(path))))

\* C7: every ingested chunk of a file that matches no known paper has the
\* cleaned file name as its paper_title.
C7_CleanedTitle ==
    ipc \in {"create", "done"} =>
        \A i \in 1..Len(documents) :
            Unmatched(documents[i]) =>
                documents[i].md["paper_title"] = CleanedFilename(documents[i].md["source"])

HasPiece(text, piece) == \E k \in 1..Len(text) : text[k] = piece

Follows(text, label, value) ==
    \E k \in 1..(Len(text) - 1) : text[k] = label /\ text[k + 1] = value

\* C8 as stated: the citations of chunks ingested from documents whose authors
\* and journal are not known have no Authors part, no Journal part and no
\* "Unknown" placeholder.
C8_NoPlaceholders ==
    (fpc = "done" /\ \A i \in 1..Len(source_documents) : Unmatched(source_documents[i]))
    => \A c \in 1..Len(formatted_citations) :
          /\ ~HasPiece(formatted_citations[c], "**Authors**: ")
          /\ ~HasPiece(formatted_citations[c], "**Journal**: ")
          /\ ~HasPiece(formatted_citations[c], "Unknown Author")
          /\ ~HasPiece(formatted_citations[c], "Unknown Journal")

\* C8 as amended: ingestion gives a chunk of a document whose authors and
\* journal are not known the values "Unknown Author" and "Unknown Journal",
\* and the citation of such a chunk has an Authors part with the one and a
\* Journal part that starts with the other.
C8_PlaceholdersShown ==
    fpc = "done" =>
        \A i \in 1..Len(source_documents) :
            Unmatched(source_documents[i]) =>
                /\ Get(source_documents[i].md, "authors", <<>>) = UnknownAuthor
                /\ Get(source_documents[i].md, "journal", <<>>) = UnknownJournal
                /\ \E c \in 1..Len(formatted_citations) :
                     /\ IsPrefix(<<"**Title**: ">> \o source_documents[i].md["paper_title"],
                                 formatted_citations[c])
                     /\ Follows(formatted_citations[c], "**Authors**: ", "Unknown Author")
                     /\ Follows(formatted_citations[c], "**Journal**: ", "Unknown Journal")

\* C8 witness: chunks of a file that matches no known paper were retrieved and
\* formatted
C8_Witness ==
    /\ fpc = "done"
    /\ \E i \in 1..Len(source_documents) : Unmatched(source_documents[i])

\* the PDF files directly in the directory
TopLevelPdfs == {f \in files : FirstIndexOf(f, "/") = 0 /\ EndsWith(Lower(f), DotPdf)}

\* the files hold no page to make a chunk of
NoChunks == \A f \in GlobPdf(files) : pages[f] = 0

Diagnostics == {MsgCreatedDirectory, MsgNoPdfFiles, MsgNoChunks}

C10_RecursiveScan ==
    (ipc = "done" /\ dir_found = "present" /\ GlobPdf(files) # {})
    => \A k \in 1..Len(printed) : printed[k] # MsgNoPdfFiles

\* ---- under SpecFormat ----
\* the citation format_sources returned for the chunk at position i, which is
\* the first to carry its key
CitationAt(i) ==
    formatted_citations[Cardinality({j \in FirstSeen(source_documents) : j <= i})]

\* C11: the Journal part of the citation of a chunk with a non-empty journal
\* holds each of volume, pages and year that its metadata has; the article's
\* 'pages' value is there whenever it is non-empty, whatever the chunk's own
\* 'page' is.
C11_PagesFolded ==
    fpc = "done" =>
        \A i \in FirstSeen(source_documents) :
            LET md == MetadataOf(source_documents[i])
            IN Truthy(Get(md, "journal", <<>>)) =>
                 /\ Contains(CitationAt(i), <<"**Journal**: ">> \o Str(md["journal"]))
                 /\ Truthy(Get(md, "volume", <<>>)) =>
                      Contains(CitationAt(i), <<" ">> \o Str(md["volume"]))
                 /\ Truthy(Get(md, "pages", <<>>)) =>
                      Contains(CitationAt(i), <<", ">> \o Str(md["pages"]))
                 /\ Truthy(Get(md, "year", <<>>)) =>
                      Contains(CitationAt(i), <<" (">> \o Str(md["year"]) \o <<")">>)
====
